---- MODULE Spec2Model ----
(***************************************************************************)
(* PtGraph<Wt> (include/crab/common/pt_graph.hpp): a sparse weighted       *)
(* directed graph with recycled vertex slots.                              *)
(*                                                                         *)
(* A graph value is a record of the class's five data members.  Vertex ids *)
(* are 0-based as in the source; the vectors are TLA+ sequences, so slot v *)
(* lives at index v + 1.  A successor map (patricia_tree<vert_idx, Wt>) is *)
(* a function from the destination ids it binds to their weights, and a    *)
(* predecessor set (patricia_tree_set<vert_idx>) is a set of ids.          *)
(*                                                                         *)
(* edge_count is an unsigned int.  The model computes it over the integers *)
(* and EdgeCountInRange states that it never leaves 0..MaxEdges, so the    *)
(* 32-bit wrap-around is never taken in the runs the model covers.         *)
(***************************************************************************)
EXTENDS Naturals, Integers, Sequences, FiniteSets, TLC

\* ------------------------------------------------------------------ bounds
\* the largest number of slots the callers of the model allocate
MaxSize == 2
\* the callers stop adding edges once edge_count reaches this
MaxEdges == 2
\* edge weights are drawn from 1..MaxWt
MaxWt == 2

Wts == 1..MaxWt

\* the merge policies the callers pass to update_edge: a commutative one
\* ("min") and one that tells its arguments apart ("fst")
Ops == [kind : {"min", "fst"}, absorbing : BOOLEAN]

apply(o, a, b) ==
    IF o.kind = "min" THEN (IF a <= b THEN a ELSE b) ELSE a

default_is_absorbing(o) == o.absorbing

\* g    : the graph the callers work on
\* last : the call just made on it (see the callers below)
\* h    : a second graph object, made from g by a copy, a move or a conversion
\* shared : the containers of h that are the containers of g (see the sharing)
\* pc   : where the program is: "run" while calls return normally, "aborted"
\*        after a failed assert, "undefined" after undefined behaviour, and the
\*        stages of the two-graph callers
VARIABLES g, last, h, shared, pc

vars == <<g, last, h, shared, pc>>

\* what the calls on g alone leave as it is
others == <<h, shared, pc>>

\* ------------------------------------------------------ the containers
\* succ_t() : the empty successor map
EmptyMap == [k \in {} |-> 0]

\* PtGraph() : edge_count(0), _succs(), _preds(), is_free(), free_id()
EmptyGraph ==
    [edge_count |-> 0, succs |-> <<>>, preds |-> <<>>,
     is_free |-> <<>>, free_id |-> <<>>]

\* int size(void) const { return is_free.size(); }
size(G) == Len(G.is_free)

\* succ_range::mem : p.lookup(v) is non-null
succ_mem(m, v) == v \in DOMAIN m

\* succ_range::add : p.insert(v, w) binds v to w, replacing a binding of v
succ_add(m, v, w) == [k \in (DOMAIN m) \cup {v} |-> IF k = v THEN w ELSE m[k]]

\* succ_range::remove : p.remove(v)
succ_remove(m, v) == [k \in (DOMAIN m) \ {v} |-> m[k]]

\* succ_range::size
succ_size(m) == Cardinality(DOMAIN m)

\* succs(v) / preds(v) : _succs[v] / _preds[v]
succs(G, v) == G.succs[v + 1]
preds(G, v) == G.preds[v + 1]

\* bool elem(x, y) { return succs(x).mem(y); }
elem(G, x, y) == succ_mem(succs(G, x), y)

\* Wt edge_val(x, y) { return succs(x).value(y); }
edge_val(G, x, y) == succs(G, x)[y]

\* ------------------------------------------------------------- vertices
\* mutant: the oldest free id is reused instead of the newest
NewVertexRecycle_front(G) ==
    LET v == G.free_id[1]
    IN  [g |-> [G EXCEPT !.free_id = Tail(@), !.is_free[v + 1] = FALSE], v |-> v]

\* mutant: the recycled id is not popped off free_id
NewVertexRecycle_nopop(G) ==
    LET v == G.free_id[Len(G.free_id)]
    IN  [g |-> [G EXCEPT !.is_free[v + 1] = FALSE], v |-> v]

\* new_vertex, free_id.size() > 0: the id at the back of free_id is reused
\* (its assert(v < _succs.size()) holds wherever C3_SlotAccounting does)
NewVertexRecycle(G) ==
    LET v == G.free_id[Len(G.free_id)]
    IN  [g |-> [G EXCEPT !.free_id = SubSeq(@, 1, Len(@) - 1),
                         !.is_free[v + 1] = FALSE],
         v |-> v]

\* new_vertex, free_id empty: a new slot is appended
NewVertexFresh(G) ==
    [g |-> [G EXCEPT !.succs = Append(@, EmptyMap),
                     !.preds = Append(@, {}),
                     !.is_free = Append(@, FALSE)],
     v |-> Len(G.is_free)]

\* vert_id new_vertex(void): the graph after the call and the id returned
new_vertex(G) ==
    IF Len(G.free_id) > 0 THEN NewVertexRecycle(G) ELSE NewVertexFresh(G)

\* mutant: v is not removed from its successors' predecessor sets
forget_live_keeps_preds(G, v) ==
    LET G1 == [G EXCEPT !.free_id = Append(@, v), !.is_free[v + 1] = TRUE,
                        !.edge_count = @ - succ_size(succs(G, v)),
                        !.succs[v + 1] = EmptyMap]
        in == preds(G1, v)
    IN  [G1 EXCEPT !.edge_count = @ - Cardinality(in),
                   !.succs = [i \in DOMAIN @ |->
                                 IF (i - 1) \in in THEN succ_remove(@[i], v) ELSE @[i]],
                   !.preds[v + 1] = {}]

\* mutant: preds(v).size() is subtracted before v leaves its own predecessor set
forget_live_selfloop_twice(G, v) ==
    LET out == DOMAIN succs(G, v)
        in == preds(G, v)
    IN  [G EXCEPT !.free_id = Append(@, v), !.is_free[v + 1] = TRUE,
                  !.edge_count = @ - Cardinality(out) - Cardinality(in),
                  !.preds = [i \in DOMAIN @ |->
                                IF i = v + 1 THEN {}
                                ELSE IF (i - 1) \in out THEN @[i] \ {v} ELSE @[i]],
                  !.succs = [i \in DOMAIN @ |->
                                IF i = v + 1 THEN EmptyMap
                                ELSE IF (i - 1) \in in THEN succ_remove(@[i], v) ELSE @[i]]]

\* mutant: the successor map of v is not cleared
forget_live_keeps_succs(G, v) ==
    LET out == DOMAIN succs(G, v)
        in == preds(G, v) \ {v}
    IN  [G EXCEPT !.free_id = Append(@, v), !.is_free[v + 1] = TRUE,
                  !.edge_count = @ - Cardinality(out) - Cardinality(in),
                  !.preds = [i \in DOMAIN @ |->
                                IF i = v + 1 THEN {}
                                ELSE IF (i - 1) \in out THEN @[i] \ {v} ELSE @[i]],
                  !.succs = [i \in DOMAIN @ |->
                                IF i # v + 1 /\ (i - 1) \in in
                                  THEN succ_remove(@[i], v) ELSE @[i]]]

\* forget, from free_id.push_back(v) on: v is live
forget_live(G, v) ==
    LET G1 == [G EXCEPT !.free_id = Append(@, v), !.is_free[v + 1] = TRUE]
        out == DOMAIN succs(G1, v)
        \* edge_count -= succs(v).size();
        G2 == [G1 EXCEPT !.edge_count = @ - Cardinality(out)]
        \* for(d : succs(v)) preds(d).remove(v);
        G3 == [G2 EXCEPT !.preds =
                  [i \in DOMAIN @ |-> IF (i - 1) \in out THEN @[i] \ {v} ELSE @[i]]]
        \* _succs[v].clear();
        G4 == [G3 EXCEPT !.succs[v + 1] = EmptyMap]
        in == preds(G4, v)
        \* edge_count -= preds(v).size();
        G5 == [G4 EXCEPT !.edge_count = @ - Cardinality(in)]
        \* for(p : preds(v)) succs(p).remove(v);
        G6 == [G5 EXCEPT !.succs =
                  [i \in DOMAIN @ |-> IF (i - 1) \in in THEN succ_remove(@[i], v) ELSE @[i]]]
    IN  \* _preds[v].clear();
        [G6 EXCEPT !.preds[v + 1] = {}]

\* mutant: no early return for a slot that is already free
forget_unguarded(G, v) == forget_live(G, v)

\* void forget(vert_id v), for v < _succs.size()
forget(G, v) ==
    IF G.is_free[v + 1] THEN G ELSE forget_live(G, v)

\* ---------------------------------------------------------------- edges
\* mutant: the edge is stored and edge_count is left alone
add_edge_nocount(G, x, wt, y) ==
    [G EXCEPT !.succs[x + 1] = succ_add(@, y, wt),
              !.preds[y + 1] = @ \cup {x}]

\* void add_edge(x, wt, y)
add_edge(G, x, wt, y) ==
    [G EXCEPT !.succs[x + 1] = succ_add(@, y, wt),
              !.preds[y + 1] = @ \cup {x},
              !.edge_count = @ + 1]

\* mutant: the edge is added without looking for it first
set_edge_always_adds(G, s, w, d) == add_edge(G, s, w, d)

\* void set_edge(s, w, d)
set_edge(G, s, w, d) ==
    IF ~elem(G, s, d) THEN add_edge(G, s, w, d)
    ELSE [G EXCEPT !.succs[s + 1] = succ_add(@, d, w)]

\* mutant: an absent edge is created whatever default_is_absorbing() says
update_edge_ignores_absorbing(G, s, w, d, op) ==
    IF elem(G, s, d)
      THEN [G EXCEPT !.succs[s + 1] = succ_add(@, d, apply(op, edge_val(G, s, d), w))]
      ELSE add_edge(G, s, w, d)

\* mutant: op.apply is given the new weight first
update_edge_swapped(G, s, w, d, op) ==
    IF elem(G, s, d)
      THEN [G EXCEPT !.succs[s + 1] = succ_add(@, d, apply(op, w, edge_val(G, s, d)))]
      ELSE IF ~default_is_absorbing(op) THEN add_edge(G, s, w, d) ELSE G

\* void update_edge(s, w, d, op)
update_edge(G, s, w, d, op) ==
    IF elem(G, s, d)
      THEN [G EXCEPT !.succs[s + 1] = succ_add(@, d, apply(op, edge_val(G, s, d), w))]
      ELSE IF ~default_is_absorbing(op) THEN add_edge(G, s, w, d) ELSE G

\* ------------------------------------------------------------ iteration
\* mutant: the iterator does not step over free slots
vert_skip_none(free, v, e) == v

\* vert_iterator::operator!= : while(v < o.v && is_free[v]) ++v;
RECURSIVE vert_skip(_, _, _)
vert_skip(free, v, e) ==
    IF v < e /\ free[v + 1] THEN vert_skip(free, v + 1, e) ELSE v

\* for(vert_id v : verts()) from position v: the ids the loop body sees
RECURSIVE verts_from(_, _)
verts_from(free, v) ==
    LET u == vert_skip(free, v, Len(free))
    IN  IF u < Len(free) THEN <<u>> \o verts_from(free, u + 1) ELSE <<>>

\* vert_range verts(void) const: begin() is at 0, end() at is_free.size()
verts(G) == verts_from(G.is_free, 0)

\* iteration over a patricia tree: its keys in ascending order
RECURSIVE ascending(_)
ascending(S) ==
    IF S = {} THEN <<>>
    ELSE LET m == CHOOSE a \in S : \A b \in S : a <= b
         IN  <<m>> \o ascending(S \ {m})

\* ------------------------------------------------------ whole-graph calls
\* mutant: the free-list is emptied along with the edges
clear_edges_drops_free(G) ==
    [G EXCEPT !.edge_count = 0, !.free_id = <<>>,
              !.succs = [i \in DOMAIN @ |-> EmptyMap],
              !.preds = [i \in DOMAIN @ |-> {}]]

\* void clear_edges(void)
clear_edges(G) ==
    LET vs == verts(G)
        cleared == {vs[i] : i \in DOMAIN vs}
    IN  [G EXCEPT !.edge_count = 0,
                  !.succs = [i \in DOMAIN @ |-> IF (i - 1) \in cleared THEN EmptyMap ELSE @[i]],
                  !.preds = [i \in DOMAIN @ |-> IF (i - 1) \in cleared THEN {} ELSE @[i]]]

\* void clear(void)
clear(G) ==
    [G EXCEPT !.edge_count = 0, !.is_free = <<>>, !.free_id = <<>>,
              !.succs = <<>>, !.preds = <<>>]

\* void growTo(unsigned int new_sz): the loop
RECURSIVE growTo(_, _)
growTo(G, new_sz) ==
    IF size(G) < new_sz
      THEN growTo([G EXCEPT !.is_free = Append(@, FALSE),
                            !.preds = Append(@, {}),
                            !.succs = Append(@, EmptyMap)], new_sz)
      ELSE G

\* mutant: the closing assert is compiled out
growTo_assert_off(G) == TRUE

\* growTo's closing assert(free_id.size() == 0)
growTo_assert(G) == Len(G.free_id) = 0

\* mutant: source and destination are exchanged in the replayed add_edge
RECURSIVE copy_succs_reversed(_, _, _, _)
copy_succs_reversed(ret, G, s, ds) ==
    IF ds = <<>> THEN ret
    ELSE copy_succs_reversed(add_edge(ret, Head(ds), edge_val(G, s, Head(ds)), s),
                             G, s, Tail(ds))

\* copy: for(vert_id d : g.succs(s)) ret.add_edge(s, g.edge_val(s, d), d);
RECURSIVE copy_succs(_, _, _, _)
copy_succs(ret, G, s, ds) ==
    IF ds = <<>> THEN ret
    ELSE copy_succs(add_edge(ret, s, edge_val(G, s, Head(ds)), Head(ds)), G, s, Tail(ds))

\* copy: for(vert_id s : g.verts()) ...
RECURSIVE copy_verts(_, _, _)
copy_verts(ret, G, vs) ==
    IF vs = <<>> THEN ret
    ELSE copy_verts(copy_succs(ret, G, Head(vs), ascending(DOMAIN succs(G, Head(vs)))),
                    G, Tail(vs))

\* mutant: the copy takes over the flags and the free-list of g
copy_keeps_liveness(G) ==
    [copy_verts(growTo(EmptyGraph, size(G)), G, verts(G))
        EXCEPT !.is_free = G.is_free, !.free_id = G.free_id]

\* static graph_t copy(G& g)
copy(G) == copy_verts(growTo(EmptyGraph, size(G)), G, verts(G))

\* bool is_empty(void) const
is_empty(G) == G.edge_count = 0

\* --------------------------------------------- copies, moves, conversion
\* PtGraph(const PtGraph<Wt>& o): every member is copy-constructed from o's
copy_ctor(o) ==
    [edge_count |-> o.edge_count, succs |-> o.succs, preds |-> o.preds,
     is_free |-> o.is_free, free_id |-> o.free_id]

\* PtGraph& operator=(const PtGraph<Wt>& o): nothing is done for &o == this
copy_assign(this, o, same) ==
    IF same THEN this
    ELSE [this EXCEPT !.edge_count = o.edge_count, !.succs = o.succs,
                      !.preds = o.preds, !.is_free = o.is_free,
                      !.free_id = o.free_id]

\* a vector that has been moved from is left empty
moved_from(o) ==
    [o EXCEPT !.succs = <<>>, !.preds = <<>>, !.is_free = <<>>, !.free_id = <<>>]

\* PtGraph(PtGraph<Wt>&& o): [this |-> the new graph, o |-> what is left of o]
move_ctor(o) ==
    [this |-> [edge_count |-> o.edge_count, succs |-> o.succs, preds |-> o.preds,
               is_free |-> o.is_free, free_id |-> o.free_id],
     \* o.edge_count = 0;
     o |-> [moved_from(o) EXCEPT !.edge_count = 0]]

\* PtGraph& operator=(PtGraph<Wt>&& o): o.edge_count is not written
move_assign(this, o) ==
    [this |-> [this EXCEPT !.edge_count = o.edge_count, !.succs = o.succs,
                           !.preds = o.preds, !.is_free = o.is_free,
                           !.free_id = o.free_id],
     o |-> moved_from(o)]

\* a weight of type Wo passed where a Wt is expected: an implicit conversion,
\* here to a type that holds fewer values and wraps
to_Wt(w) == w % MaxWt

\* PtGraph(const PtGraph<Wo>& o): the inner loop. add_edge indexes _succs[s]
\* and _preds[d] of the graph under construction; ok is false once an index
\* was past the end
RECURSIVE convert_succs(_, _, _, _)
convert_succs(ret, o, s, ds) ==
    IF ds = <<>> \/ ~ret.ok THEN ret
    ELSE IF s < size(ret.this) /\ Head(ds) < size(ret.this)
      THEN convert_succs([ret EXCEPT !.this =
                             add_edge(@, s, to_Wt(edge_val(o, s, Head(ds))), Head(ds))],
                         o, s, Tail(ds))
      ELSE [ret EXCEPT !.ok = FALSE]

\* PtGraph(const PtGraph<Wo>& o): for(vert_id v : o.verts()) ...
RECURSIVE convert_verts(_, _, _)
convert_verts(ret, o, vs) ==
    IF vs = <<>> THEN ret
    ELSE convert_verts(convert_succs(ret, o, Head(vs), ascending(DOMAIN succs(o, Head(vs)))),
                       o, Tail(vs))

\* PtGraph(const PtGraph<Wo>& o) : edge_count(0), the vectors start empty
convert(o) == convert_verts([this |-> EmptyGraph, ok |-> TRUE], o, verts(o))

\* ---------------------------------------------------------------- sharing
\* The successor maps and predecessor sets are persistent containers: a copy
\* of one shares its structure with the original, and an update gives the
\* updated holder a new version.
\* the containers of a graph, by member and index
Conts(G) == {"succs", "preds"} \X (1..size(G))

\* the containers of A2 that are not what they were in A
changed(A, A2) ==
    {c \in Conts(A) \cup Conts(A2) :
        \/ c[2] > size(A) \/ c[2] > size(A2)
        \/ c[1] = "succs" /\ A.succs[c[2]] # A2.succs[c[2]]
        \/ c[1] = "preds" /\ A.preds[c[2]] # A2.preds[c[2]]}

\* mutant: an update is made in place, in the structure both holders share
held_in_place(other, A2, sh) ==
    [other EXCEPT
        !.succs = [i \in DOMAIN @ |->
                      IF <<"succs", i>> \in sh /\ i <= size(A2) THEN A2.succs[i] ELSE @[i]],
        !.preds = [i \in DOMAIN @ |->
                      IF <<"preds", i>> \in sh /\ i <= size(A2) THEN A2.preds[i] ELSE @[i]]]

\* what the other holder has after one holder was updated to A2, sh being
\* the containers they shared: the version it had
held(other, A2, sh) == other

\* -------------------------------------------------------------- callers
\* `last` is the call the caller has just made and not yet taken the result
\* of: its name, its arguments, what it returned (-1 where the call has no
\* such argument or returns nothing) and the edge_count it found.  The caller
\* makes a call when it holds none, and takes the result before the next.
NoOp == [kind |-> "none", absorbing |-> FALSE]

NoCall ==
    [op |-> "none", x |-> -1, w |-> -1, y |-> -1, o |-> NoOp, ret |-> -1, count |-> -1]

Call(name, x, w, y, o, r) ==
    [op |-> name, x |-> x, w |-> w, y |-> y, o |-> o, ret |-> r,
     count |-> g.edge_count]

Idle == last = NoCall

Slots == 0..(size(g) - 1)
Live == {v \in Slots : ~g.is_free[v + 1]}

Init ==
    /\ g = EmptyGraph
    /\ last = NoCall
    /\ h = EmptyGraph
    /\ shared = {}
    /\ pc = "run"

NewVertex ==
    /\ Idle
    /\ Len(g.free_id) > 0 \/ size(g) < MaxSize
    /\ g' = new_vertex(g).g
    /\ last' = Call("new_vertex", -1, -1, -1, NoOp, new_vertex(g).v)
    /\ UNCHANGED others

Forget(v) ==
    /\ Idle
    /\ g' = forget(g, v)
    /\ last' = Call("forget", v, -1, -1, NoOp, -1)
    /\ UNCHANGED others

AddEdge(x, w, y) ==
    /\ Idle
    /\ g.edge_count < MaxEdges
    /\ g' = add_edge(g, x, w, y)
    /\ last' = Call("add_edge", x, w, y, NoOp, -1)
    /\ UNCHANGED others

SetEdge(x, w, y) ==
    /\ Idle
    /\ elem(g, x, y) \/ g.edge_count < MaxEdges
    /\ g' = set_edge(g, x, w, y)
    /\ last' = Call("set_edge", x, w, y, NoOp, -1)
    /\ UNCHANGED others

UpdateEdge(x, w, y, o) ==
    /\ Idle
    /\ elem(g, x, y) \/ g.edge_count < MaxEdges
    /\ g' = update_edge(g, x, w, y, o)
    /\ last' = Call("update_edge", x, w, y, o, -1)
    /\ UNCHANGED others

ClearEdges ==
    /\ Idle
    /\ g' = clear_edges(g)
    /\ last' = Call("clear_edges", -1, -1, -1, NoOp, -1)
    /\ UNCHANGED others

Clear ==
    /\ Idle
    /\ g' = clear(g)
    /\ last' = Call("clear", -1, -1, -1, NoOp, -1)
    /\ UNCHANGED others

GrowTo(n) ==
    /\ Idle
    /\ growTo_assert(g)
    /\ g' = growTo(g, n)
    /\ last' = Call("growTo", n, -1, -1, NoOp, -1)
    /\ UNCHANGED others

Copy ==
    /\ Idle
    /\ g' = g
    /\ last' = Call("copy", -1, -1, -1, NoOp, copy(g))
    /\ UNCHANGED others

\* the caller takes the result of the call it made
Return ==
    /\ ~Idle
    /\ g' = g
    /\ last' = NoCall
    /\ UNCHANGED others

\* callers that keep to the contract: edge operations on live vertices,
\* add_edge only for an edge that does not exist yet (every call needs Idle;
\* it stands before the quantifiers so that the arguments are enumerated
\* only where a call can be made)
Next ==
    \/ NewVertex
    \/ Idle /\ \E v \in Slots : Forget(v)
    \/ Idle /\ \E x \in Live, y \in Live, w \in Wts : ~elem(g, x, y) /\ AddEdge(x, w, y)
    \/ Idle /\ \E x \in Live, y \in Live, w \in Wts : SetEdge(x, w, y)
    \/ Idle /\ \E x \in Live, y \in Live, w \in Wts, o \in Ops : UpdateEdge(x, w, y, o)
    \/ ClearEdges
    \/ Clear
    \/ Idle /\ \E n \in 0..MaxSize : GrowTo(n)
    \/ Copy
    \/ Return

Spec == Init /\ [][Next]_vars

\* callers that pass any allocated slot, live or free, to the vertex and edge
\* operations, and call add_edge whether or not the edge exists
NextAlloc ==
    \/ NewVertex
    \/ Idle /\ \E v \in Slots : Forget(v)
    \/ Idle /\ \E x \in Slots, y \in Slots, w \in Wts : AddEdge(x, w, y)
    \/ Idle /\ \E x \in Slots, y \in Slots, w \in Wts : SetEdge(x, w, y)
    \/ Idle /\ \E x \in Slots, y \in Slots, w \in Wts, o \in Ops : UpdateEdge(x, w, y, o)
    \/ Return

SpecAlloc == Init /\ [][NextAlloc]_vars

\* ------------------------------------------- callers that break the contract
\* _succs[v], _preds[v]: std::vector::operator[] does not check v
in_range(G, v) == v < size(G)

\* what indexing a vector past its end can do: the program is stopped (a
\* hardened library, a fault), or the call goes on over foreign memory
Undefined == {"aborted", "undefined"}

\* the ids such a caller passes: a live slot or the first id past the end
Ids == Live \cup {size(g)}

Running == Idle /\ pc = "run"

\* forget: assert(v < _succs.size()) comes first
ForgetAny(v) ==
    /\ Running
    /\ IF in_range(g, v)
         THEN g' = forget(g, v) /\ pc' = "run"
         ELSE g' = g /\ pc' = "aborted"
    /\ last' = Call("forget", v, -1, -1, NoOp, -1)
    /\ UNCHANGED <<h, shared>>

\* elem: succs(x).mem(y), no assert
ElemAny(x, y) ==
    /\ Running
    /\ g' = g
    /\ IF in_range(g, x)
         THEN pc' = "run" /\ last' = Call("elem", x, -1, y, NoOp, elem(g, x, y))
         ELSE pc' \in Undefined /\ last' = Call("elem", x, -1, y, NoOp, -1)
    /\ UNCHANGED <<h, shared>>

\* edge_val: succs(x).value(y) = *(p.lookup(y)), no assert
EdgeValAny(x, y) ==
    /\ Running
    /\ g' = g
    /\ IF in_range(g, x) /\ elem(g, x, y)
         THEN pc' = "run" /\ last' = Call("edge_val", x, -1, y, NoOp, edge_val(g, x, y))
         ELSE pc' \in Undefined /\ last' = Call("edge_val", x, -1, y, NoOp, -1)
    /\ UNCHANGED <<h, shared>>

\* succs(v), preds(v): a range over _succs[v], _preds[v], no assert
SuccsAny(v) ==
    /\ Running
    /\ g' = g
    /\ IF in_range(g, v)
         THEN pc' = "run" /\ last' = Call("succs", v, -1, -1, NoOp, succs(g, v))
         ELSE pc' \in Undefined /\ last' = Call("succs", v, -1, -1, NoOp, -1)
    /\ UNCHANGED <<h, shared>>

PredsAny(v) ==
    /\ Running
    /\ g' = g
    /\ IF in_range(g, v)
         THEN pc' = "run" /\ last' = Call("preds", v, -1, -1, NoOp, preds(g, v))
         ELSE pc' \in Undefined /\ last' = Call("preds", v, -1, -1, NoOp, -1)
    /\ UNCHANGED <<h, shared>>

\* add_edge: succs(x).add, preds(y).add, no assert on x, y or on (x, y)
AddEdgeAny(x, w, y) ==
    /\ Running
    /\ IF in_range(g, x) /\ in_range(g, y)
         THEN g.edge_count < MaxEdges /\ g' = add_edge(g, x, w, y) /\ pc' = "run"
         ELSE g' = g /\ pc' \in Undefined
    /\ last' = Call("add_edge", x, w, y, NoOp, -1)
    /\ UNCHANGED <<h, shared>>

\* set_edge: its assert(s < size() && d < size()) is commented out
SetEdgeAny(x, w, y) ==
    /\ Running
    /\ IF in_range(g, x) /\ in_range(g, y)
         THEN /\ elem(g, x, y) \/ g.edge_count < MaxEdges
              /\ g' = set_edge(g, x, w, y) /\ pc' = "run"
         ELSE g' = g /\ pc' \in Undefined
    /\ last' = Call("set_edge", x, w, y, NoOp, -1)
    /\ UNCHANGED <<h, shared>>

\* update_edge: elem(s, d) first, no assert
UpdateEdgeAny(x, w, y, o) ==
    /\ Running
    /\ IF in_range(g, x) /\ in_range(g, y)
         THEN /\ elem(g, x, y) \/ g.edge_count < MaxEdges
              /\ g' = update_edge(g, x, w, y, o) /\ pc' = "run"
         ELSE g' = g /\ pc' \in Undefined
    /\ last' = Call("update_edge", x, w, y, o, -1)
    /\ UNCHANGED <<h, shared>>

\* growTo in any state: the loop runs, then assert(free_id.size() == 0)
GrowToAny(n) ==
    /\ Running
    /\ g' = growTo(g, n)
    /\ pc' = IF growTo_assert(growTo(g, n)) THEN "run" ELSE "aborted"
    /\ last' = Call("growTo", n, -1, -1, NoOp, -1)
    /\ UNCHANGED <<h, shared>>

NextAny ==
    \/ pc = "run" /\ NewVertex
    \/ Running /\ \E v \in 0..size(g) : ForgetAny(v)
    \/ Running /\ \E x \in Ids, y \in Ids : ElemAny(x, y)
    \/ Running /\ \E x \in Ids, y \in Ids : EdgeValAny(x, y)
    \/ Running /\ \E v \in Ids : SuccsAny(v)
    \/ Running /\ \E v \in Ids : PredsAny(v)
    \/ Running /\ \E x \in Ids, y \in Ids, w \in Wts : AddEdgeAny(x, w, y)
    \/ Running /\ \E x \in Ids, y \in Ids, w \in Wts : SetEdgeAny(x, w, y)
    \/ Running /\ \E x \in Ids, y \in Ids, w \in Wts, o \in Ops : UpdateEdgeAny(x, w, y, o)
    \/ Running /\ \E n \in 0..MaxSize : GrowToAny(n)
    \/ pc = "run" /\ Return

SpecAny == Init /\ [][NextAny]_vars

\* ------------------------------------------------ callers with two graphs
\* the calls a caller that keeps to the contract can make on a graph G
Calls(G) ==
    LET sl == 0..(size(G) - 1)
        lv == {v \in sl : ~G.is_free[v + 1]}
        c(name, x, w, y, o) == [op |-> name, x |-> x, w |-> w, y |-> y, o |-> o]
    IN  (IF Len(G.free_id) > 0 \/ size(G) < MaxSize
           THEN {c("new_vertex", -1, -1, -1, NoOp)} ELSE {})
        \cup {c("forget", v, -1, -1, NoOp) : v \in sl}
        \cup {c("add_edge", e[1], e[2], e[3], NoOp) :
                 e \in {t \in lv \X Wts \X lv :
                           ~elem(G, t[1], t[3]) /\ G.edge_count < MaxEdges}}
        \cup {c("set_edge", e[1], e[2], e[3], NoOp) :
                 e \in {t \in lv \X Wts \X lv :
                           elem(G, t[1], t[3]) \/ G.edge_count < MaxEdges}}
        \cup {c("update_edge", e[1], e[2], e[3], e[4]) :
                 e \in {t \in lv \X Wts \X lv \X Ops :
                           elem(G, t[1], t[3]) \/ G.edge_count < MaxEdges}}
        \cup {c("clear_edges", -1, -1, -1, NoOp), c("clear", -1, -1, -1, NoOp)}
        \cup (IF growTo_assert(G)
                THEN {c("growTo", n, -1, -1, NoOp) : n \in 0..MaxSize} ELSE {})

\* the graph after the call c on G
Apply(G, c) ==
    CASE c.op = "new_vertex" -> new_vertex(G).g
      [] c.op = "forget" -> forget(G, c.x)
      [] c.op = "add_edge" -> add_edge(G, c.x, c.w, c.y)
      [] c.op = "set_edge" -> set_edge(G, c.x, c.w, c.y)
      [] c.op = "update_edge" -> update_edge(G, c.x, c.w, c.y, c.o)
      [] c.op = "clear_edges" -> clear_edges(G)
      [] c.op = "clear" -> clear(G)
      [] c.op = "growTo" -> growTo(G, c.x)

\* a call on g while it is the only graph
Build(c) ==
    /\ Running
    /\ g' = Apply(g, c)
    /\ UNCHANGED <<last, h, shared, pc>>

\* graph_t h(g);
CopyCtor ==
    /\ Running
    /\ h' = copy_ctor(g)
    /\ shared' = Conts(g)
    /\ pc' = "copied"
    /\ g' = g
    /\ last' = Call("copy_ctor", -1, -1, -1, NoOp, -1)

\* h = g;
CopyAssign ==
    /\ Running
    /\ h' = copy_assign(h, g, FALSE)
    /\ shared' = Conts(g)
    /\ pc' = "copied"
    /\ g' = g
    /\ last' = Call("copy_assign", -1, -1, -1, NoOp, -1)

\* g = g;
SelfAssign ==
    /\ Running
    /\ g' = copy_assign(g, g, TRUE)
    /\ UNCHANGED <<last, h, shared, pc>>

\* graph_t h(graph_t::copy(g)); the containers of the result are built anew
CopyInto ==
    /\ Running
    /\ h' = copy(g)
    /\ shared' = {}
    /\ pc' = "copied"
    /\ g' = g
    /\ last' = Call("copy_into", -1, -1, -1, NoOp, -1)

\* a call on the copy
MutateH(c) ==
    /\ Idle /\ pc = "copied"
    /\ h' = Apply(h, c)
    /\ g' = held(g, h', shared)
    /\ shared' = shared \ changed(h, h')
    /\ pc' = "mutated_h"
    /\ last' = Call(c.op, c.x, c.w, c.y, c.o, -1)

\* a call on the original
MutateG(c) ==
    /\ Idle /\ pc = "copied"
    /\ g' = Apply(g, c)
    /\ h' = held(h, g', shared)
    /\ shared' = shared \ changed(g, g')
    /\ pc' = "mutated_g"
    /\ last' = Call(c.op, c.x, c.w, c.y, c.o, -1)

\* the copy goes out of scope
Drop ==
    /\ pc \in {"mutated_g", "mutated_h"}
    /\ h' = EmptyGraph
    /\ shared' = {}
    /\ pc' = "run"
    /\ g' = g
    /\ last' = NoCall

\* graph_t h(std::move(g));
MoveCtor ==
    /\ Running
    /\ h' = move_ctor(g).this
    /\ g' = move_ctor(g).o
    /\ pc' = "moved"
    /\ last' = Call("move_ctor", -1, -1, -1, NoOp, -1)
    /\ UNCHANGED shared

\* h = std::move(g);
MoveAssign ==
    /\ Running
    /\ h' = move_assign(h, g).this
    /\ g' = move_assign(h, g).o
    /\ pc' = "moved"
    /\ last' = Call("move_assign", -1, -1, -1, NoOp, -1)
    /\ UNCHANGED shared

\* PtGraph<Wt> h(g); for g a PtGraph<Wo>
Convert ==
    /\ Running
    /\ h' = convert(g).this
    /\ IF convert(g).ok THEN pc' = "converted" ELSE pc' \in Undefined
    /\ g' = g
    /\ last' = Call("convert", -1, -1, -1, NoOp, -1)
    /\ UNCHANGED shared

\* g is built by calls within the contract; a second graph is made from it by
\* a copy, a move or a conversion; after a copy one call is made on either
\* graph and the copy is dropped
NextTwo ==
    \/ pc = "run" /\ \E c \in Calls(g) : Build(c)
    \/ CopyCtor
    \/ CopyAssign
    \/ SelfAssign
    \/ CopyInto
    \/ pc = "copied" /\ Idle /\ \E c \in Calls(h) : MutateH(c)
    \/ pc = "copied" /\ Idle /\ \E c \in Calls(g) : MutateG(c)
    \/ Drop
    \/ MoveCtor
    \/ MoveAssign
    \/ Convert
    \/ pc = "copied" /\ Return

SpecTwo == Init /\ [][NextTwo]_vars

\* edge_count stays within the range the model computes it in
EdgeCountInRange == g.edge_count \in 0..MaxEdges

\* ---------------------------------------------------------------- claims
RECURSIVE SumOver(_, _)
SumOver(S, f) ==
    IF S = {} THEN 0
    ELSE LET a == CHOOSE b \in S : TRUE IN f[a] + SumOver(S \ {a}, f)

\* C1 (symmetry, I1): in every state the callers of SpecAlloc reach, every
\* destination y bound in succs(x) is a slot with x in preds(y), and every
\* source p in preds(x) is a slot with x bound in succs(p).
C1_Symmetry ==
    \A x \in Slots :
        /\ \A y \in DOMAIN succs(g, x) : y \in Slots /\ x \in preds(g, y)
        /\ \A p \in preds(g, x) : p \in Slots /\ elem(g, p, x)

\* forget has just removed edges of a vertex and another edge is still there
C1_Witness ==
    /\ last.op = "forget"
    /\ last.count > g.edge_count
    /\ \E x \in Slots, y \in Slots : elem(g, x, y)

\* C2 (count consistency, I2): in every state the contract-keeping callers
\* reach, edge_count is the sum of the successor-map sizes over the live
\* vertices and the sum of the predecessor-set sizes over the live vertices.
C2_CountConsistency ==
    /\ g.edge_count = SumOver(Live, [v \in Live |-> succ_size(succs(g, v))])
    /\ g.edge_count = SumOver(Live, [v \in Live |-> Cardinality(preds(g, v))])

\* forget has just removed an edge and a self-loop is still there
C2_Witness ==
    /\ last.op = "forget"
    /\ last.count > g.edge_count
    /\ \E x \in Live : elem(g, x, x)

\* C3 (slot accounting, I3): every slot is live and absent from free_id, or
\* free and in free_id exactly once; free_id holds slot indices only.
C3_SlotAccounting ==
    /\ \A v \in Slots :
          Cardinality({i \in DOMAIN g.free_id : g.free_id[i] = v})
              = IF g.is_free[v + 1] THEN 1 ELSE 0
    /\ \A i \in DOMAIN g.free_id : g.free_id[i] \in Slots

\* new_vertex has just recycled one of two free slots
C3_Witness ==
    /\ last.op = "new_vertex"
    /\ size(g) >= 2
    /\ Len(g.free_id) = 1
    /\ ~g.is_free[last.ret + 1]

\* C4 (recycling order): new_vertex returns the id at the back of the
\* free-list and leaves size() alone, and appends slot size() only when the
\* free-list is empty; after forget(v) has freed a live v, the next new_vertex
\* returns v and size() is what it was before the forget.
C4_Recycling ==
    [][ /\ last'.op = "new_vertex" =>
             IF Len(g.free_id) > 0
               THEN /\ last'.ret = g.free_id[Len(g.free_id)]
                    /\ size(g') = size(g)
                    /\ g'.free_id = SubSeq(g.free_id, 1, Len(g.free_id) - 1)
               ELSE /\ last'.ret = size(g)
                    /\ size(g') = size(g) + 1
        /\ (last'.op = "forget" /\ ~g.is_free[last'.x + 1]) =>
             /\ new_vertex(g').v = last'.x
             /\ size(new_vertex(g').g) = size(g)
      ]_vars

\* slots 0 and 1 were freed in that order and new_vertex has just returned 1
C4_Witness ==
    /\ last.op = "new_vertex"
    /\ last.ret = 1
    /\ size(g) >= 2
    /\ g.free_id = <<0>>

\* what forget(v) of a live v leaves behind, for a decrease of edge_count by dec
C5_Post(v, dec) ==
    /\ g'.edge_count = g.edge_count - dec
    /\ \A y \in Slots : ~elem(g', v, y) /\ ~elem(g', y, v)
    /\ \A x \in Slots \ {v}, y \in Slots \ {v} :
          /\ elem(g', x, y) <=> elem(g, x, y)
          /\ elem(g, x, y) => edge_val(g', x, y) = edge_val(g, x, y)

\* C5 as stated: forget(v) of a live v decreases edge_count by d_out + d_in,
\* leaves no edge at v and keeps every other edge with its weight.
C5_Original ==
    [][ (last'.op = "forget" /\ ~g.is_free[last'.x + 1]) =>
          C5_Post(last'.x, succ_size(succs(g, last'.x)) + Cardinality(preds(g, last'.x)))
      ]_vars

\* C5 (forget removes exactly the incident edges), amended: forget(v) of a
\* live v decreases edge_count by the number of edges incident to v, which is
\* d_out + d_in less one when the self-loop (v, v) exists; it leaves no edge at
\* v and keeps every other edge with its weight.
C5_ForgetIncident ==
    [][ (last'.op = "forget" /\ ~g.is_free[last'.x + 1]) =>
          C5_Post(last'.x, succ_size(succs(g, last'.x)) + Cardinality(preds(g, last'.x))
                             - (IF elem(g, last'.x, last'.x) THEN 1 ELSE 0))
      ]_vars

\* forget has just removed two edges or more
C5_Witness ==
    /\ last.op = "forget"
    /\ g.is_free[last.x + 1]
    /\ last.count - g.edge_count >= 2

\* C6 (idempotent forgetting, I5): forget(v) of a slot that is already free
\* leaves the graph as it is, and a second forget(v) after any forget(v)
\* changes nothing.
C6_IdempotentForget ==
    [][ last'.op = "forget" =>
          /\ g.is_free[last'.x + 1] => g' = g
          /\ forget(g', last'.x) = g'
      ]_vars

\* forget(v) was just called on a v that an earlier call had freed: v is free
\* and is not the newest entry of the free-list
C6_Witness ==
    /\ last.op = "forget"
    /\ g.is_free[last.x + 1]
    /\ g.free_id[Len(g.free_id)] # last.x

\* C7 (set_edge is an upsert): set_edge(x, w, y) on live x, y leaves the edge
\* (x, y) with weight w; if it was absent edge_count grows by one, if it was
\* there edge_count, the predecessor sets and the keys of the successor maps
\* are unchanged; a second set_edge(x, w2, y) leaves edge_count alone and
\* makes the weight w2.
C7_SetEdgeUpsert ==
    [][ last'.op = "set_edge" =>
          LET x == last'.x
              y == last'.y
              w == last'.w
          IN  /\ elem(g', x, y) /\ edge_val(g', x, y) = w
              /\ x \in preds(g', y)
              /\ IF elem(g, x, y)
                   THEN /\ g'.edge_count = g.edge_count
                        /\ g'.preds = g.preds
                        /\ \A v \in Slots : DOMAIN succs(g', v) = DOMAIN succs(g, v)
                   ELSE g'.edge_count = g.edge_count + 1
              /\ \A w2 \in Wts :
                    /\ set_edge(g', x, w2, y).edge_count = g'.edge_count
                    /\ edge_val(set_edge(g', x, w2, y), x, y) = w2
      ]_vars

\* set_edge has just overwritten the weight of an edge that was there
C7_Witness ==
    /\ last.op = "set_edge"
    /\ last.count = g.edge_count
    /\ elem(g, last.x, last.y)
    /\ edge_val(g, last.x, last.y) = last.w

\* C8 (absorbing default): update_edge on an absent edge with an op whose
\* default is absorbing leaves the whole graph unchanged.
C8_AbsorbingDefault ==
    [][ ( /\ last'.op = "update_edge"
          /\ ~elem(g, last'.x, last'.y)
          /\ default_is_absorbing(last'.o) ) => g' = g
      ]_vars

\* update_edge with an absorbing op was just called and the edge is absent
C8_Witness ==
    /\ last.op = "update_edge"
    /\ default_is_absorbing(last.o)
    /\ ~elem(g, last.x, last.y)

\* C9 (update_edge merge): on an edge that exists update_edge stores
\* op.apply(existing weight, new weight) and leaves edge_count alone, whatever
\* default_is_absorbing() says; on an absent edge with a non-absorbing op it
\* creates the edge with the new weight and edge_count grows by one.
C9_UpdateMerge ==
    [][ last'.op = "update_edge" =>
          LET x == last'.x
              y == last'.y
              w == last'.w
              o == last'.o
          IN  IF elem(g, x, y)
                THEN /\ elem(g', x, y)
                     /\ edge_val(g', x, y) = apply(o, edge_val(g, x, y), w)
                     /\ o.kind = "fst" => edge_val(g', x, y) = edge_val(g, x, y)
                     /\ g'.edge_count = g.edge_count
                ELSE ~default_is_absorbing(o) =>
                        /\ elem(g', x, y)
                        /\ edge_val(g', x, y) = w
                        /\ g'.edge_count = g.edge_count + 1
      ]_vars

\* update_edge with the op that returns its first argument has just kept the
\* weight of an existing edge, which differs from the weight passed
C9_Witness ==
    /\ last.op = "update_edge"
    /\ last.o.kind = "fst"
    /\ elem(g, last.x, last.y)
    /\ last.count = g.edge_count
    /\ edge_val(g, last.x, last.y) # last.w

\* C10 (copy fidelity): the graph copy(g) returns has g's size, has an edge
\* exactly where g has one, with g's weight, binds no id outside g's slots,
\* and its edge_count is the number of edges of g.
C10_CopyFidelity ==
    last.op = "copy" =>
        LET r == last.ret
        IN  /\ size(r) = size(g)
            /\ Len(r.succs) = size(g) /\ Len(r.preds) = size(g)
            /\ \A x \in Slots :
                  /\ DOMAIN succs(r, x) = DOMAIN succs(g, x)
                  /\ \A y \in DOMAIN succs(g, x) : edge_val(r, x, y) = edge_val(g, x, y)
            /\ r.edge_count = SumOver(Slots, [v \in Slots |-> succ_size(succs(g, v))])

\* copy has just returned for a graph with a forgotten slot and an edge
C10_Witness ==
    /\ last.op = "copy"
    /\ \E v \in Slots : g.is_free[v + 1]
    /\ \E x \in Slots, y \in Slots : elem(g, x, y) /\ edge_val(last.ret, x, y) = 2

C15_ClearEdgesFrame ==
    [][ last'.op = "clear_edges" =>
          /\ g'.edge_count = 0
          /\ Len(g'.succs) = size(g) /\ Len(g'.preds) = size(g)
          /\ \A v \in Slots : succs(g', v) = EmptyMap /\ preds(g', v) = {}
          /\ size(g') = size(g)
          /\ g'.is_free = g.is_free
          /\ g'.free_id = g.free_id
          /\ new_vertex(g').v = new_vertex(g).v
      ]_vars

\* clear_edges has removed edges from a graph with a slot on the free-list
C15_Witness ==
    /\ last.op = "clear_edges"
    /\ last.count > 0
    /\ Len(g.free_id) > 0
    /\ \E v \in Live : TRUE

\* C17 (free slots carry no edges): under callers that pass live vertices, a
\* free slot has no successors and no predecessors and is in no live
\* vertex's containers, elem is false when an end is free, and the vertex
\* new_vertex has just returned has no incident edge.
C17_FreeSlotsBare ==
    /\ \A v \in Slots \ Live :
          /\ succs(g, v) = EmptyMap
          /\ preds(g, v) = {}
          /\ \A u \in Live : ~succ_mem(succs(g, u), v) /\ v \notin preds(g, u)
    /\ \A x \in Slots, y \in Slots : (x \notin Live \/ y \notin Live) => ~elem(g, x, y)
    /\ last.op = "new_vertex" =>
          /\ succs(g, last.ret) = EmptyMap
          /\ preds(g, last.ret) = {}
          /\ \A u \in Slots : ~elem(g, u, last.ret) /\ last.ret \notin preds(g, u)

\* a slot is free while the graph still has an edge
C17_Witness ==
    /\ \E v \in Slots : g.is_free[v + 1]
    /\ g.edge_count > 0
    /\ Idle

\* C19 (copy drops liveness): in the graph copy(g) returns every slot of
\* [0, g.size()) is live and the free-list is empty, so its verts() are
\* 0 .. size - 1 and its next new_vertex returns g.size().
C19_CopyAllLive ==
    last.op = "copy" =>
        LET r == last.ret
        IN  /\ size(r) = size(g)
            /\ \A i \in 1..size(g) : ~r.is_free[i]
            /\ r.free_id = <<>>
            /\ verts(r) = [i \in 1..size(g) |-> i - 1]
            /\ new_vertex(r).v = size(g)

\* copy has returned for a graph whose live ids are not all its slots
C19_Witness ==
    /\ last.op = "copy"
    /\ Len(g.free_id) > 0
    /\ verts(last.ret) # verts(g)

\* C12 (growTo with a pending recycled slot): whatever n is, n <= size()
\* included, a growTo called while the free-list is not empty ends in the
\* failed assert, and a growTo that returns leaves an empty free-list.
C12_GrowToFailsFast ==
    [][ last'.op = "growTo" =>
          /\ Len(g.free_id) > 0 => pc' = "aborted"
          /\ pc' = "run" => Len(g'.free_id) = 0
      ]_vars

\* growTo(0) on a graph that has slots, one of them on the free-list
C12_Witness ==
    /\ last.op = "growTo"
    /\ last.x = 0
    /\ Len(g.free_id) > 0
    /\ pc = "aborted"

\* C13 (out-of-range ids), as stated: forget, elem, edge_val, add_edge,
\* set_edge, update_edge, succs and preds called with an id >= size() end in
\* a failed assert, with no value returned and no change to the graph.
C13_OutOfRangeAsserts ==
    ( /\ last.op \in {"forget", "elem", "edge_val", "add_edge", "set_edge",
                      "update_edge", "succs", "preds"}
      /\ last.x >= size(g) \/ last.y >= size(g) )
    => pc = "aborted"

\* C16 (add_edge on an existing edge), as stated: the call ends in a failed
\* assert and never completes with edge_count incremented.
C16_AddEdgeAsserts ==
    [][ ( /\ last'.op = "add_edge"
          /\ in_range(g, last'.x) /\ in_range(g, last'.y)
          /\ elem(g, last'.x, last'.y) )
        => pc' = "aborted" /\ g'.edge_count = g.edge_count
      ]_vars

C18_ConvertFidelity ==
    last.op = "convert" =>
        /\ pc = "converted"
        /\ size(h) = size(g)
        /\ \A x \in Slots :
              /\ DOMAIN succs(h, x) = DOMAIN succs(g, x)
              /\ \A y \in DOMAIN succs(g, x) : edge_val(h, x, y) = to_Wt(edge_val(g, x, y))
        /\ h.edge_count = SumOver(Slots, [v \in Slots |-> succ_size(succs(g, v))])

\* C20 (moved-from graphs), as stated: after the move constructor or the
\* move assignment has taken o, o.edge_count is 0 and o.is_empty() holds,
\* and the destination is what o was.
C20_MovedFromConsistent ==
    [][ last'.op \in {"move_ctor", "move_assign"} =>
          /\ g'.edge_count = 0
          /\ is_empty(g')
          /\ h' = g
      ]_vars

====
